---- MODULE Spec2Model ----
(***************************************************************************)
(* Model of CSVMeshImporterOperator.execute (csv_mesh_importer.py).        *)
(*                                                                         *)
(* One invocation of execute is a single sequential pass: open the file,   *)
(* skip the header, decode every row into a point, create the mesh         *)
(* datablock and the BMesh, insert vertices, form faces, commit to the     *)
(* host, run the three cleanup operators, write the text listing, report.  *)
(* Any exception raised inside the try block transfers control to the      *)
(* except clause.  Numbers are exact rationals <<numerator, denominator>>; *)
(* CSV fields are strings.                                                 *)
(***************************************************************************)
EXTENDS Integers, Sequences, FiniteSets, TLC

VARIABLES
    file,       \* the rows of the CSV file, header included; each row a sequence of string fields
    pc,         \* position of execute
    rd,         \* 1-based index in file of the row the csv reader yields next
    vertices,   \* the python list `vertices`
    raised,     \* the exception caught by the except clause, NoExc when none
    meshes,     \* number of datablocks this invocation added to bpy.data.meshes
    bmVerts,    \* bm.verts: one position per BMVert, in index order
    bmFaces,    \* bm.faces: triples of 0-based BMVert indices
    k,          \* 1-based position of the for loop in corner_indices
    tri,        \* the index triple of the face expression evaluated last (line 84)
    objects,    \* number of objects this invocation linked into the collection
    mverts,     \* vertex positions of the mesh datablock, in index order
    medges,     \* edges of the mesh datablock: sets of two 0-based vertex indices
    mfaces,     \* faces of the mesh datablock: triples of 0-based vertex indices
    origin,     \* obj.location
    materials,  \* number of materials appended to the mesh
    texts,      \* the text datablocks written: each a sequence of lines
    reports,    \* the self.report calls made, in order
    result,     \* the set returned by execute, "NONE" while running
    trace       \* the build passes completed so far, in order

vars == <<file, pc, rd, vertices, raised, meshes, bmVerts, bmFaces, k, tri,
          objects, mverts, medges, mfaces, origin, materials, texts, reports,
          result, trace>>

-----------------------------------------------------------------------------
(* Bounds *)

\* longest run of rows drawn freely from RowSet
MaxTail == 4

-----------------------------------------------------------------------------
(* Rational arithmetic standing for python floats *)

Abs(n) == IF n < 0 THEN -n ELSE n

RECURSIVE GCD(_, _)
GCD(a, b) == IF b = 0 THEN a ELSE GCD(b, a % b)

\* the rational n/d in lowest terms with positive denominator (d # 0)
Norm(n, d) ==
    LET g == GCD(Abs(n), Abs(d))
        s == IF d < 0 THEN -1 ELSE 1
    IN  <<(s * n) \div g, (s * d) \div g>>

FSub(a, b) == Norm(a[1] * b[2] - b[1] * a[2], a[2] * b[2])
FAdd(a, b) == Norm(a[1] * b[2] + b[1] * a[2], a[2] * b[2])
FMul(a, b) == Norm(a[1] * b[1], a[2] * b[2])
FHalf(a)   == Norm(a[1], 2 * a[2])
\* a <= b, by integer parts and then the reciprocals of the remainders, so
\* that no product of numerators and denominators is formed
RECURSIVE FLeq(_, _)
FLeq(a, b) ==
    LET qa == a[1] \div a[2]
        qb == b[1] \div b[2]
        ra == a[1] % a[2]
        rb == b[1] % b[2]
    IN  IF qa # qb THEN qa < qb
        ELSE IF ra = 0 THEN TRUE
        ELSE IF rb = 0 THEN FALSE
        ELSE FLeq(<<b[2], rb>>, <<a[2], ra>>)
Zero       == <<0, 1>>

-----------------------------------------------------------------------------
(* The input files *)

\* a data row: two leading columns the importer ignores, then x, y, z, w
Row(x, y, z, w) == <<"0", "0", x, y, z, w>>

HeaderRow == <<"VTX", "IDX", "SV_Position.x", "SV_Position.y", "SV_Position.z", "SV_Position.w">>

RowA     == Row("0", "0", "0", "1")       \* (0, 0, 0)
RowB     == Row("1", "0", "0", "1")       \* (1, 0, 0)
RowC     == Row("0", "1", "0", "1")       \* (0, 1, 0)
RowD     == Row("0", "1", "1", "1")       \* (0, 1, 1)
RowNear  == Row("1", "0", "0", "2000")    \* (0.0005, 0, 0): within 0.001 of (0, 0, 0)
RowShort == <<"0", "0", "1", "0">>        \* only 4 fields
RowText  == Row("1", "abc", "0", "1")     \* y is not a number: fails at line 69
RowZeroW == Row("1", "abc", "0", "0")     \* w is zero (and y is not a number)

RowSet == {RowA, RowB, RowC, RowD, RowNear, RowShort, RowText, RowZeroW}

\* the sequences over S of length at most n
RECURSIVE SeqsUpTo(_, _)
SeqsUpTo(S, n) ==
    IF n = 0 THEN {<<>>}
    ELSE LET shorter == SeqsUpTo(S, n - 1)
         IN  shorter \cup {Append(s, e) : s \in {t \in shorter : Len(t) = n - 1}, e \in S}

\* the data rows either start with one complete triangle or with nothing
Heads == {<<>>, <<RowA, RowB, RowC>>}

\* the empty file, and every header followed by a head and at most MaxTail rows
Files ==
    {<<>>} \cup {<<HeaderRow>> \o h \o t : h \in Heads, t \in SeqsUpTo(RowSet, MaxTail)}

-----------------------------------------------------------------------------
(* Exceptions and their texts, str(e), as sequences of words *)

NoExc == [exc |-> "", text |-> <<>>, line |-> 0]

StopIteration == [exc |-> "StopIteration", text |-> <<>>, line |-> 63]

ListIndexError(line) ==
    [exc |-> "IndexError", text |-> <<"list", "index", "out", "of", "range">>, line |-> line]

\* repr() of a string without quotes or escapes in it
Repr(s) == "'" \o s \o "'"

\* float(field) of a string that is no number: the message quotes the field
ValueError(field, line) ==
    [exc |-> "ValueError",
     text |-> <<"could", "not", "convert", "string", "to", "float:", Repr(field)>>,
     line |-> line]

ZeroDivisionError(line) ==
    [exc |-> "ZeroDivisionError", text |-> <<"float", "division", "by", "zero">>, line |-> line]

\* bm.verts[i] with i past the end of the lookup table
BMIndexError(i) ==
    [exc |-> "IndexError",
     text |-> <<"BMElemSeq[index]:", "index", ToString(i), "out", "of", "range">>,
     line |-> 84]

-----------------------------------------------------------------------------
(* CSV point decoder, lines 63-72 *)

\* the strings float() accepts, with their values
FloatLiteral ==
    [s \in {"0", "1", "2", "2000"} |->
        CASE s = "0"    -> <<0, 1>>
          [] s = "1"    -> <<1, 1>>
          [] s = "2"    -> <<2, 1>>
          [] s = "2000" -> <<2000, 1>>]

IsFloat(s) == s \in DOMAIN FloatLiteral

\* a / b for b # 0
FDiv(a, b) == Norm(a[1] * b[2], a[2] * b[1])

\* float(row[c]) / float(row[5]) with 0-based column c, evaluated left to right
Coord(row, c, line) ==
    IF Len(row) < c + 1 THEN [ok |-> FALSE, err |-> ListIndexError(line)]
    ELSE IF ~IsFloat(row[c + 1]) THEN [ok |-> FALSE, err |-> ValueError(row[c + 1], line)]
    ELSE IF Len(row) < 6 THEN [ok |-> FALSE, err |-> ListIndexError(line)]
    ELSE IF ~IsFloat(row[6]) THEN [ok |-> FALSE, err |-> ValueError(row[6], line)]
    ELSE IF FloatLiteral[row[6]] = Zero THEN [ok |-> FALSE, err |-> ZeroDivisionError(line)]
    ELSE [ok |-> TRUE, val |-> FDiv(FloatLiteral[row[c + 1]], FloatLiteral[row[6]])]

\* the body of the row loop: x, then y, then z
DecodeRow(row) ==
    LET x == Coord(row, 2, 68)
        y == Coord(row, 3, 69)
        z == Coord(row, 4, 70)
    IN  IF ~x.ok THEN x
        ELSE IF ~y.ok THEN y
        ELSE IF ~z.ok THEN z
        ELSE [ok |-> TRUE, val |-> <<x.val, y.val, z.val>>]

-----------------------------------------------------------------------------
(* Triangle formation, lines 81-84 *)

\* list(range(start, stop, 3))
RECURSIVE Range3(_, _)
Range3(start, stop) ==
    IF start >= stop THEN <<>> ELSE <<start>> \o Range3(start + 3, stop)

\* corner_indices = list(range(0, len(vertices) - 1, 3))
CornerIndices(n) == Range3(0, n - 1)

\* the guard of line 83
CornerGuard(i, n) == i + 1 < n

\* bm.verts[j] succeeds
InTable(j, n) == 0 <= j /\ j < n

-----------------------------------------------------------------------------
(* The host mesh and the operators execute calls on it, lines 87-119 *)

\* the three edges a face is made of
FaceEdges(f) == {{f[1], f[2]}, {f[2], f[3]}, {f[3], f[1]}}

\* every edge of every face of fs
EdgesOfFaces(fs) == UNION {FaceEdges(fs[n]) : n \in DOMAIN fs}

\* the entries of vs whose 0-based index is in keep, in order
KeepVerts(vs, keep) ==
    [n \in 1..Cardinality(keep) |->
        vs[(CHOOSE i \in keep : Cardinality({j \in keep : j < i}) = n - 1) + 1]]

\* the index of vertex i once only the vertices of keep are left
Renumber(keep, i) == Cardinality({j \in keep : j < i})

FMin(S) == CHOOSE a \in S : \A b \in S : FLeq(a, b)
FMax(S) == CHOOSE a \in S : \A b \in S : FLeq(b, a)

\* centre of the bounding box of vs, the origin when there is no vertex
BoundsCenter(vs) ==
    IF vs = <<>> THEN <<Zero, Zero, Zero>>
    ELSE [c \in 1..3 |->
            LET S == {vs[n][c] : n \in DOMAIN vs}
            IN  FHalf(FAdd(FMin(S), FMax(S)))]

PointSub(p, q) == [c \in 1..3 |-> FSub(p[c], q[c])]
PointAdd(p, q) == [c \in 1..3 |-> FAdd(p[c], q[c])]

\* origin_set(type='ORIGIN_GEOMETRY', center='BOUNDS'), line 99: the mesh
\* moves so that its bounds centre is the object's origin
OriginSetVerts(vs) == [n \in DOMAIN vs |-> PointSub(vs[n], BoundsCenter(vs))]

\* a threshold of 2 instead of 0.001
MergeThresholdWide == <<2, 1>>

\* threshold=0.001 of line 105
MergeThreshold == <<1, 1000>>

DistSq(p, q) ==
    LET d == PointSub(p, q)
    IN  FAdd(FAdd(FMul(d[1], d[1]), FMul(d[2], d[2])), FMul(d[3], d[3]))

\* p and q are merged by remove_doubles
Close(p, q) == FLeq(DistSq(p, q), FMul(MergeThreshold, MergeThreshold))

\* remove_doubles: the vertex that 0-based vertex i is merged into; the
\* vertex of lowest index survives and takes those within the threshold
RECURSIVE MergeTarget(_, _)
MergeTarget(vs, i) ==
    LET cands == {j \in 0..(i - 1) : MergeTarget(vs, j) = j /\ Close(vs[j + 1], vs[i + 1])}
    IN  IF cands = {} THEN i ELSE CHOOSE j \in cands : \A j2 \in cands : j <= j2

Survivors(vs) == {i \in 0..(Len(vs) - 1) : MergeTarget(vs, i) = i}

\* the index vertex i has after remove_doubles
MergedIndex(vs, i) == Renumber(Survivors(vs), MergeTarget(vs, i))

\* a face with fewer than three distinct corners
Degenerate(f) == Cardinality({f[1], f[2], f[3]}) < 3

\* fs without the faces that repeat the corner set of an earlier face
RECURSIVE DropDoubleFaces(_)
DropDoubleFaces(fs) ==
    IF fs = <<>> THEN <<>>
    ELSE LET init == DropDoubleFaces(SubSeq(fs, 1, Len(fs) - 1))
             f    == fs[Len(fs)]
         IN  IF \E n \in DOMAIN init : {init[n][1], init[n][2], init[n][3]} = {f[1], f[2], f[3]}
             THEN init ELSE Append(init, f)

\* fs with every corner renamed to the index it has after remove_doubles
MapFaces(fs, vs) ==
    [n \in DOMAIN fs |-> [c \in 1..3 |-> MergedIndex(vs, fs[n][c])]]

RECURSIVE DropDegenerate(_)
DropDegenerate(fs) ==
    IF fs = <<>> THEN <<>>
    ELSE IF Degenerate(fs[1]) THEN DropDegenerate(Tail(fs))
    ELSE <<fs[1]>> \o DropDegenerate(Tail(fs))

\* remove_doubles(threshold=0.001), line 105
RemoveDoublesVerts(vs) == KeepVerts(vs, Survivors(vs))
RemoveDoublesFaces(vs, fs) == DropDoubleFaces(DropDegenerate(MapFaces(fs, vs)))
RemoveDoublesEdges(vs, es) ==
    {e2 \in {{MergedIndex(vs, i) : i \in e} : e \in es} : Cardinality(e2) = 2}

\* select_loose in edge mode, line 112: the edges no face uses
LooseEdges(es, fs) == es \ EdgesOfFaces(fs)

\* delete(type='EDGE'), line 113, removes the selected edges and the
\* vertices they leave without any edge
DeadVerts(es, fs) ==
    {i \in UNION LooseEdges(es, fs) : \A e \in es \ LooseEdges(es, fs) : i \notin e}

LiveVerts(vs, es, fs) == (0..(Len(vs) - 1)) \ DeadVerts(es, fs)

DeleteLooseVerts(vs, es, fs) == KeepVerts(vs, LiveVerts(vs, es, fs))
DeleteLooseEdges(vs, es, fs) ==
    {{Renumber(LiveVerts(vs, es, fs), i) : i \in e} : e \in es \ LooseEdges(es, fs)}
DeleteLooseFaces(vs, es, fs) ==
    [n \in DOMAIN fs |-> [c \in 1..3 |-> Renumber(LiveVerts(vs, es, fs), fs[n][c])]]

\* normals_make_consistent(inside=False), line 118: some faces are reversed,
\* which ones is the host's decision
Flip(f) == <<f[3], f[2], f[1]>>
Orientations(fs) ==
    {gs \in [DOMAIN fs -> {fs[n] : n \in DOMAIN fs} \cup {Flip(fs[n]) : n \in DOMAIN fs}] :
        \A n \in DOMAIN fs : gs[n] \in {fs[n], Flip(fs[n])}}

-----------------------------------------------------------------------------
(* The text listing, lines 132-138 *)

\* "({}, {}, {})\n".format(vertex[0], vertex[1], vertex[2]) for every entry of vs
ListingLines(vs) == [n \in DOMAIN vs |-> <<"(", vs[n][1], vs[n][2], vs[n][3], ")">>]

\* the listing written from the vertices of the mesh datablock instead
ListingTextOfMesh(vs) == <<<<"Vertices:">>>> \o ListingLines(mverts)

ListingText(vs) == <<<<"Vertices:">>>> \o ListingLines(vs)

SuccessText == <<"Mesh", "imported", "successfully.">>

-----------------------------------------------------------------------------
(* execute, lines 51-145 *)

NoPoint == <<Zero, Zero, Zero>>

Init ==
    /\ file \in Files
    /\ pc = "start"
    /\ rd = 1
    /\ vertices = <<>>
    /\ raised = NoExc
    /\ meshes = 0
    /\ bmVerts = <<>>
    /\ bmFaces = <<>>
    /\ k = 1
    /\ tri = <<>>
    /\ objects = 0
    /\ mverts = <<>>
    /\ medges = {}
    /\ mfaces = <<>>
    /\ origin = NoPoint
    /\ materials = 0
    /\ texts = <<>>
    /\ reports = <<>>
    /\ result = "NONE"
    /\ trace = <<>>

\* an exception leaves the try block for the except clause of line 141
Raise(e) ==
    /\ pc' = "except"
    /\ raised' = e

\* lines 53-65: open the file, next(reader), vertices = []
SkipHeader ==
    /\ pc = "start"
    /\ IF file = <<>>
       THEN /\ Raise(StopIteration)
            /\ UNCHANGED <<rd, vertices>>
       ELSE /\ rd' = 2
            /\ vertices' = <<>>
            /\ pc' = "decode"
            /\ UNCHANGED raised
    /\ UNCHANGED <<file, meshes, bmVerts, bmFaces, k, tri, objects, mverts, medges,
                   mfaces, origin, materials, texts, reports, result, trace>>

\* ForRow skipping a row that fails to decode instead of raising
ForRowSkipBad ==
    /\ pc = "decode"
    /\ IF rd > Len(file)
       THEN /\ pc' = "create"
            /\ UNCHANGED <<rd, vertices, raised>>
       ELSE LET r == DecodeRow(file[rd])
            IN  /\ vertices' = IF r.ok THEN Append(vertices, r.val) ELSE vertices
                /\ rd' = rd + 1
                /\ UNCHANGED <<pc, raised>>
    /\ UNCHANGED <<file, meshes, bmVerts, bmFaces, k, tri, objects, mverts, medges,
                   mfaces, origin, materials, texts, reports, result, trace>>

\* lines 67-72: one turn of `for row in reader`
ForRow ==
    /\ pc = "decode"
    /\ IF rd > Len(file)
       THEN /\ pc' = "create"
            /\ UNCHANGED <<rd, vertices, raised>>
       ELSE LET r == DecodeRow(file[rd])
            IN  IF r.ok
                THEN /\ vertices' = Append(vertices, r.val)
                     /\ rd' = rd + 1
                     /\ UNCHANGED <<pc, raised>>
                ELSE /\ Raise(r.err)
                     /\ UNCHANGED <<rd, vertices>>
    /\ UNCHANGED <<file, meshes, bmVerts, bmFaces, k, tri, objects, mverts, medges,
                   mfaces, origin, materials, texts, reports, result, trace>>

\* lines 74-75: bpy.data.meshes.new("CSV_Mesh") and bmesh.new()
NewMesh ==
    /\ pc = "create"
    /\ meshes' = meshes + 1
    /\ bmVerts' = <<>>
    /\ bmFaces' = <<>>
    /\ pc' = "verts"
    /\ UNCHANGED <<file, rd, vertices, raised, k, tri, objects, mverts, medges,
                   mfaces, origin, materials, texts, reports, result, trace>>

\* lines 77-81: one BMVert per entry of vertices, then corner_indices
InsertVerts ==
    /\ pc = "verts"
    /\ bmVerts' = vertices
    /\ k' = 1
    /\ trace' = Append(trace, "verts")
    /\ pc' = "faces"
    /\ UNCHANGED <<file, rd, vertices, raised, meshes, bmFaces, tri, objects, mverts,
                   medges, mfaces, origin, materials, texts, reports, result>>

\* lines 82-84: one turn of `for i in corner_indices`
ForCorner ==
    /\ pc = "faces"
    /\ LET n  == Len(vertices)
           cs == CornerIndices(n)
       IN  IF k > Len(cs)
           THEN /\ pc' = "commit"
                /\ trace' = Append(trace, "faces")
                /\ UNCHANGED <<k, tri, bmFaces, raised>>
           ELSE LET i == cs[k]
                IN  IF ~CornerGuard(i, n)
                    THEN /\ k' = k + 1
                         /\ UNCHANGED <<pc, tri, bmFaces, raised, trace>>
                    ELSE /\ tri' = <<i, i + 1, i + 2>>
                         /\ IF \A c \in 1..3 : InTable(tri'[c], Len(bmVerts))
                            THEN /\ bmFaces' = Append(bmFaces, tri')
                                 /\ k' = k + 1
                                 /\ UNCHANGED <<pc, raised, trace>>
                            ELSE /\ Raise(BMIndexError(
                                        CHOOSE j \in {tri'[c] : c \in 1..3} :
                                            /\ ~InTable(j, Len(bmVerts))
                                            /\ \A j2 \in {tri'[c] : c \in 1..3} :
                                                   ~InTable(j2, Len(bmVerts)) => j <= j2))
                                 /\ UNCHANGED <<k, bmFaces, trace>>
    /\ UNCHANGED <<file, rd, vertices, meshes, bmVerts, objects, mverts, medges,
                   mfaces, origin, materials, texts, reports, result>>

\* lines 87-92: bm.to_mesh(mesh), bm.free(), the object is created and linked
ToMesh ==
    /\ pc = "commit"
    /\ mverts' = bmVerts
    /\ mfaces' = bmFaces
    /\ medges' = EdgesOfFaces(bmFaces)
    /\ bmVerts' = <<>>
    /\ bmFaces' = <<>>
    /\ objects' = objects + 1
    /\ pc' = "origin"
    /\ UNCHANGED <<file, rd, vertices, raised, meshes, k, tri, origin, materials,
                   texts, reports, result, trace>>

\* OriginSet followed directly by the loose-edge removal, the merge left out
OriginSetThenLoose ==
    /\ pc = "origin"
    /\ origin' = PointAdd(origin, BoundsCenter(mverts))
    /\ mverts' = OriginSetVerts(mverts)
    /\ pc' = "loose"
    /\ UNCHANGED <<file, rd, vertices, raised, meshes, bmVerts, bmFaces, k, tri,
                   objects, medges, mfaces, materials, texts, reports, result, trace>>

\* lines 94-101: the object is selected and its origin set to the bounds centre
OriginSet ==
    /\ pc = "origin"
    /\ origin' = PointAdd(origin, BoundsCenter(mverts))
    /\ mverts' = OriginSetVerts(mverts)
    /\ pc' = "merge"
    /\ UNCHANGED <<file, rd, vertices, raised, meshes, bmVerts, bmFaces, k, tri,
                   objects, medges, mfaces, materials, texts, reports, result, trace>>

\* lines 103-106: merge by distance
RemoveDoubles ==
    /\ pc = "merge"
    /\ mverts' = RemoveDoublesVerts(mverts)
    /\ mfaces' = RemoveDoublesFaces(mverts, mfaces)
    /\ medges' = RemoveDoublesEdges(mverts, medges)
    /\ trace' = Append(trace, "remove_doubles")
    /\ pc' = "loose"
    /\ UNCHANGED <<file, rd, vertices, raised, meshes, bmVerts, bmFaces, k, tri,
                   objects, origin, materials, texts, reports, result>>

\* lines 109-114: select the loose edges and delete them
DeleteLoose ==
    /\ pc = "loose"
    /\ mverts' = DeleteLooseVerts(mverts, medges, mfaces)
    /\ mfaces' = DeleteLooseFaces(mverts, medges, mfaces)
    /\ medges' = DeleteLooseEdges(mverts, medges, mfaces)
    /\ trace' = Append(trace, "delete_loose")
    /\ pc' = "normals"
    /\ UNCHANGED <<file, rd, vertices, raised, meshes, bmVerts, bmFaces, k, tri,
                   objects, origin, materials, texts, reports, result>>

\* lines 116-119: recalculate normals
NormalsMakeConsistent ==
    /\ pc = "normals"
    /\ mfaces' \in Orientations(mfaces)
    /\ trace' = Append(trace, "normals_make_consistent")
    /\ pc' = "finish"
    /\ UNCHANGED <<file, rd, vertices, raised, meshes, bmVerts, bmFaces, k, tri,
                   objects, mverts, medges, origin, materials, texts, reports, result>>

\* lines 122-138: location_clear, the material, the text listing
Finish ==
    /\ pc = "finish"
    /\ origin' = NoPoint
    /\ materials' = materials + 1
    /\ texts' = Append(texts, ListingText(vertices))
    /\ trace' = Append(trace, "handoff")
    /\ pc' = "report"
    /\ UNCHANGED <<file, rd, vertices, raised, meshes, bmVerts, bmFaces, k, tri,
                   objects, mverts, medges, mfaces, reports, result>>

\* the except clause without its return: control falls through to line 144
ExceptFallsThrough ==
    /\ pc = "except"
    /\ reports' = Append(reports, [level |-> "ERROR", text |-> raised.text])
    /\ pc' = "report"
    /\ UNCHANGED <<file, rd, vertices, raised, meshes, bmVerts, bmFaces, k, tri,
                   objects, mverts, medges, mfaces, origin, materials, texts, result, trace>>

\* lines 141-143: except Exception as e
Except ==
    /\ pc = "except"
    /\ reports' = Append(reports, [level |-> "ERROR", text |-> raised.text])
    /\ result' = "CANCELLED"
    /\ pc' = "done"
    /\ UNCHANGED <<file, rd, vertices, raised, meshes, bmVerts, bmFaces, k, tri,
                   objects, mverts, medges, mfaces, origin, materials, texts, trace>>

\* lines 144-145: the try block ended without an exception
ReportInfo ==
    /\ pc = "report"
    /\ reports' = Append(reports, [level |-> "INFO", text |-> SuccessText])
    /\ result' = "FINISHED"
    /\ pc' = "done"
    /\ UNCHANGED <<file, rd, vertices, raised, meshes, bmVerts, bmFaces, k, tri,
                   objects, mverts, medges, mfaces, origin, materials, texts, trace>>

Next ==
    \/ SkipHeader
    \/ ForRow
    \/ NewMesh
    \/ InsertVerts
    \/ ForCorner
    \/ ToMesh
    \/ OriginSet
    \/ RemoveDoubles
    \/ DeleteLoose
    \/ NormalsMakeConsistent
    \/ Finish
    \/ Except
    \/ ReportInfo

Spec == Init /\ [][Next]_vars

-----------------------------------------------------------------------------
(* Vocabulary of the properties *)

\* N, the number of data rows after the header
DataRows == IF file = <<>> THEN 0 ELSE Len(file) - 1

\* a row the decoder contract accepts: six fields, numeric x, y, z, w, w not zero
GoodRow(row) ==
    /\ Len(row) >= 6
    /\ \A c \in 3..6 : IsFloat(row[c])
    /\ FloatLiteral[row[6]] # Zero

WellFormed == file # <<>> /\ \A j \in 2..Len(file) : GoodRow(file[j])

\* a row whose w field is zero
ZeroWRow(row) == Len(row) >= 6 /\ IsFloat(row[6]) /\ FloatLiteral[row[6]] = Zero

\* the triangles (i, i+1, i+2) for the multiples of three i with i + 2 < n
ExpectedTriangles(n) == [j \in 1..(n \div 3) |-> <<3 * (j - 1), 3 * (j - 1) + 1, 3 * (j - 1) + 2>>]

\* an exception raised by the header skip or the row loop
DecoderError == raised.line \in {63, 68, 69, 70}

\* an exception raised by the header skip, the row loop, vertex insertion or face creation
DecodeOrBuildError == raised.line \in 63..84

\* the words of the reports made so far
ReportWords == UNION {{reports[n].text[m] : m \in DOMAIN reports[n].text} : n \in DOMAIN reports}

PassOrder == <<"verts", "faces", "remove_doubles", "delete_loose", "normals_make_consistent", "handoff">>

StageNames == <<"Empty", "VerticesInserted", "TrianglesFormed", "Merged", "LooseEdgesRemoved",
                "NormalsOriented", "Done">>

\* the stage of the build: named after the last pass completed
Stage == StageNames[Len(trace) + 1]

ExampleFile == <<HeaderRow, RowA, RowB, RowC, RowA, RowB, RowD>>

ExamplePoints ==
    << <<Zero, Zero, Zero>>, <<<<1, 1>>, Zero, Zero>>, <<Zero, <<1, 1>>, Zero>>,
       <<Zero, Zero, Zero>>, <<<<1, 1>>, Zero, Zero>>, <<Zero, <<1, 1>>, <<1, 1>>>> >>

-----------------------------------------------------------------------------
(* Properties *)

\* C1: for a well-formed file with N >= 3 data rows, whatever N modulo 3,
\* execute does not fail and the mesh committed before the merge has N
\* vertices and the floor(N/3) triangles (i, i+1, i+2).
C1_TrailingPointsDropped ==
    (WellFormed /\ DataRows >= 3) =>
        /\ raised = NoExc
        /\ result # "CANCELLED"
        /\ pc = "origin" => (Len(mverts) = DataRows /\ mfaces = ExpectedTriangles(DataRows))

\* C2: for a well-formed file with fewer than 3 data rows no triangle is
\* made, nothing is raised during triangle formation and the result is the
\* success state.
C2_FewRowsSucceed ==
    (WellFormed /\ DataRows < 3) =>
        /\ raised = NoExc
        /\ bmFaces = <<>> /\ mfaces = <<>>
        /\ pc = "done" => result = "FINISHED"

\* C3: when execute is cancelled by an error of decode or build, the host
\* holds no mesh datablock and no scene object of this invocation.
C3_CancelLeavesNothing ==
    (result = "CANCELLED" /\ DecodeOrBuildError) => (meshes = 0 /\ objects = 0)

\* C7: every face whose creation is attempted names three distinct vertex
\* indices inside the vertex table 0..N-1.
C7_TriangleIndicesInBounds ==
    tri # <<>> =>
        /\ Cardinality({tri[1], tri[2], tri[3]}) = 3
        /\ \A c \in 1..3 : tri[c] \in 0..(Len(vertices) - 1)

\* C4: a decoder error (no rows at all, or a data row at any position with
\* fewer than 6 fields, a non-numeric x, y, z or w, or w = 0) aborts the
\* import: the bad row raises, nothing is decoded afterwards, no mesh, no
\* scene object and no listing is made, and the invocation ends with one
\* ERROR report and the cancelled result.
C4_DecoderErrorAborts ==
    /\ [](DecoderError =>
            /\ meshes = 0 /\ objects = 0 /\ materials = 0 /\ texts = <<>>
            /\ bmVerts = <<>> /\ mverts = <<>> /\ trace = <<>>
            /\ pc \in {"except", "done"}
            /\ pc = "done" =>
                 (reports = <<[level |-> "ERROR", text |-> raised.text]>> /\ result = "CANCELLED"))
    /\ [][/\ (pc = "start" /\ file = <<>>) => (pc' = "except" /\ DecoderError')
          /\ (pc = "decode" /\ rd <= Len(file) /\ ~GoodRow(file[rd])) =>
                 (pc' = "except" /\ DecoderError')
          /\ DecoderError => (rd' = rd /\ vertices' = vertices /\ raised' = raised)]_vars

\* a decoder error after at least one row was decoded, the invocation ended
C4_Witness ==
    pc = "done" /\ DecoderError /\ raised.line # 63 /\ Len(vertices) >= 1 /\ rd < Len(file)

\* C5: every invocation makes exactly one report and returns: either one
\* ERROR report with the text of the raised exception and CANCELLED, or one
\* INFO report "Mesh imported successfully." and FINISHED; before the return
\* nothing is reported.
C5_ExactlyOneReport ==
    /\ Len(reports) <= 1
    /\ pc # "done" => (reports = <<>> /\ result = "NONE")
    /\ pc = "done" =>
         \/ /\ raised # NoExc
            /\ reports = <<[level |-> "ERROR", text |-> raised.text]>>
            /\ result = "CANCELLED"
         \/ /\ raised = NoExc
            /\ reports = <<[level |-> "INFO", text |-> SuccessText]>>
            /\ result = "FINISHED"

\* an invocation that ended in the except clause after a build error
C5_Witness == pc = "done" /\ result = "CANCELLED" /\ raised.line = 84 /\ Len(reports) = 1

\* C6: when the import fails at a data row whose w field is zero (its x
\* being numeric, so that the division is reached), the error report
\* identifies the 1-based number of that data row, and no mesh exists.
C6_ReportNamesRow ==
    (pc = "done" /\ DecoderError /\ raised.line # 63 /\ ZeroWRow(file[rd]) /\ IsFloat(file[rd][3])) =>
        /\ ToString(rd - 1) \in ReportWords
        /\ meshes = 0

\* C8 as stated: on success the listing has the header and as many vertex
\* lines as the final mesh has vertices.
C8_ListingIsFinalMesh ==
    (pc = "done" /\ result = "FINISHED") =>
        /\ Len(texts) = 1
        /\ Head(texts[1]) = <<"Vertices:">>
        /\ Len(texts[1]) - 1 = Len(mverts)

\* C8 amended: on success the listing has the header and one line per
\* decoded data row, in input order, with the point decoded from that row;
\* the number of lines is N, whatever the merge left of the mesh.
C8_ListingIsDecodedPoints ==
    (pc = "done" /\ result = "FINISHED") =>
        /\ Len(texts) = 1
        /\ Head(texts[1]) = <<"Vertices:">>
        /\ Len(texts[1]) - 1 = DataRows
        /\ \A j \in 1..DataRows : texts[1][j + 1] = ListingLines(<<DecodeRow(file[j + 1]).val>>)[1]

\* a successful import whose merge removed a vertex
C8_Witness == pc = "done" /\ result = "FINISHED" /\ Len(mverts) < Len(vertices) /\ Len(vertices) >= 3

\* C9: the build passes run in the order verts, faces, remove_doubles,
\* delete_loose, normals_make_consistent, handoff: a step leaves the stage or
\* moves it to its immediate successor, no pass runs twice, and a decoder
\* failure leaves the stage Empty.
C9_SingleForwardPass ==
    /\ [](/\ trace = SubSeq(PassOrder, 1, Len(trace))
          /\ DecoderError => Stage = "Empty")
    /\ [][\/ Stage' = Stage /\ trace' = trace
          \/ /\ Len(trace') = Len(trace) + 1
             /\ SubSeq(trace', 1, Len(trace)) = trace
             /\ \E n \in 1..(Len(StageNames) - 1) : Stage = StageNames[n] /\ Stage' = StageNames[n + 1]]_vars

\* a successful import that went through every stage
C9_Witness == pc = "done" /\ Stage = "Done" /\ result = "FINISHED" /\ mfaces # <<>>

\* C10: the example file decodes to the six example points, commits 6
\* vertices and 2 triangles, and after remove_doubles has 4 vertices and
\* still 2 triangles, each with three distinct vertex indices.
C10_ExampleMerge ==
    file = ExampleFile =>
        /\ raised = NoExc
        /\ pc = "create" => vertices = ExamplePoints
        /\ pc = "origin" => (Len(mverts) = 6 /\ mfaces = <<<<0, 1, 2>>, <<3, 4, 5>>>>)
        /\ pc = "loose" =>
             /\ Len(mverts) = 4
             /\ Len(mfaces) = 2
             /\ \A n \in 1..2 :
                  /\ Cardinality({mfaces[n][c] : c \in 1..3}) = 3
                  /\ \A c \in 1..3 : mfaces[n][c] \in 0..3

\* the example right after the merge
C10_Witness == file = ExampleFile /\ pc = "loose" /\ Len(trace) = 3

====
